---- MODULE Spec2Model ----
(***************************************************************************)
(* Model of the DDM command-line front-end: main() of main.cpp together    *)
(* with conditionAssert() of debug.cpp.                                    *)
(*                                                                         *)
(* One run of the process is one behaviour.  The argument vector and the   *)
(* contents of the file system are the inputs; they are fixed by Init and  *)
(* never change.  pc is the position of main().                            *)
(***************************************************************************)
EXTENDS Integers, Sequences, FiniteSets, TLC

\* ------------------------------------------------------------------ bounds
MaxArgs   == 3     \* longest free part of an argument vector
MaxTokens == 3     \* longest series file, in whitespace-separated tokens

\* --------------------------------------------------------------- constants
EXIT_FAILURE == 1          \* exit(EXIT_FAILURE) of conditionAssert
EXIT_SUCCESS == 0          \* return 0 of main
EXIT_HELP    == 0 - 1      \* return -1 of main
NoExit       == 0 - 99     \* the process is still running
NoArg        == "NULL"     \* optarg == NULL
NoFrac       == 0 - 1      \* a token without a fractional part
Missing      == [exists |-> FALSE, toks |-> <<>>]   \* a path that cannot be opened
File(toks)   == [exists |-> TRUE, toks |-> toks]    \* a readable file

\* ------------------------------------------------------- argument vectors
\* An element of argv (argv[0] left out) is a record:
\*   c = option character, "" for a word that does not start with '-'
\*   a = text attached to the option in the same element (NoArg when there
\*       is none), or the word itself.
Opt(c)      == [c |-> c, a |-> NoArg]
OptA(c, a)  == [c |-> c, a |-> a]
Word(w)     == [c |-> "", a |-> w]

\* the text of an element, as getopt hands it out when the element is taken
\* as the argument of the option before it
Text(e) == IF e.c = "" THEN e.a
           ELSE IF e.a = NoArg THEN "-" \o e.c ELSE ("-" \o e.c) \o e.a

\* the option string handed to getopt: "no" argument, "req"uired (':') or
\* "opt"ional ('::')
OptString ==
  [ch \in {"h","o","N","s","x","y","Q","T","S","E","I","f","W","v","Z","t",
           "C","M","G","F","B","A","n"} |->
     IF ch \in {"o","N","s","x","y","Q","T","S","E","f","t","C","G","F","n"}
       THEN "req"
     ELSE IF ch = "W" THEN "opt" ELSE "no"]

\* index of the first element at or after k that is an option, Len+1 if none
RECURSIVE SkipWords(_, _)
SkipWords(av, k) ==
  IF k > Len(av) THEN k
  ELSE IF av[k].c # "" THEN k ELSE SkipWords(av, k + 1)

\* One call of getopt (GNU, permuting).  ind is the 1-based index of the
\* next element to scan, skip the number of words passed over so far.
\* Result: ret = option character, "?" or "EOF" (-1); optarg; the new ind
\* and skip.  At EOF optind is set back to the first skipped word.
Getopt(av, ind, skip) ==
  LET j  == SkipWords(av, ind)
      sk == skip + (j - ind)
  IN IF j > Len(av)
       THEN [ret |-> "EOF", optarg |-> NoArg, ind |-> (Len(av) + 1) - sk, skip |-> sk]
     ELSE LET e == av[j] IN
       IF e.c \notin DOMAIN OptString
         THEN [ret |-> "?", optarg |-> NoArg, ind |-> j + 1, skip |-> sk]
       ELSE IF OptString[e.c] = "no"
         THEN [ret |-> e.c, optarg |-> NoArg, ind |-> j + 1, skip |-> sk]
       ELSE IF OptString[e.c] = "opt"
         THEN [ret |-> e.c, optarg |-> e.a, ind |-> j + 1, skip |-> sk]
       ELSE IF e.a # NoArg
         THEN [ret |-> e.c, optarg |-> e.a, ind |-> j + 1, skip |-> sk]
       ELSE IF j + 1 <= Len(av)
         THEN [ret |-> e.c, optarg |-> Text(av[j + 1]), ind |-> j + 2, skip |-> sk]
       ELSE [ret |-> "?", optarg |-> NoArg, ind |-> j + 1, skip |-> sk]

\* atoi: the leading decimal digits of the text, 0 when there are none
Atoi(s) ==
  CASE s = "0" -> 0 [] s = "1" -> 1 [] s = "2" -> 2 [] s = "20" -> 20
    [] OTHER -> 0

\* ------------------------------------------------------------ series files
\* A token of a series file:  i = value of the leading digits (-1 when the
\* token does not start with a digit), f = the digit after a decimal point
\* (NoFrac when there is none), junk = letters follow the number.
Tok(i, f, junk) == [i |-> i, f |-> f, junk |-> junk]
T1    == Tok(1, NoFrac, FALSE)      \* "1"
T2    == Tok(2, NoFrac, FALSE)      \* "2"
T15   == Tok(1, 5, FALSE)           \* "1.5"
T3abc == Tok(3, NoFrac, TRUE)       \* "3abc"
Tabc  == Tok(0 - 1, NoFrac, TRUE)   \* "abc"
Tokens == {T1, T2, T15, T3abc, Tabc}

\* operator>>(float&) on a stream positioned at the start of token tk:
\* ok, the value <<integer part, tenths>>, and whether part of the token is
\* left unread in the stream
ExtractFloat(tk) ==
  IF tk.i < 0 THEN [ok |-> FALSE, val |-> <<0, 0>>, rest |-> TRUE]
  ELSE [ok |-> TRUE,
        val |-> <<tk.i, IF tk.f = NoFrac THEN 0 ELSE tk.f>>,
        rest |-> tk.junk]

\* operator>>(int&): reads the digits and stops at '.' or a letter; the value
\* is the one-element tuple <<integer>>
ExtractInt(tk) ==
  IF tk.i < 0 THEN [ok |-> FALSE, val |-> <<0>>, rest |-> TRUE]
  ELSE [ok |-> TRUE, val |-> <<tk.i>>, rest |-> (tk.f # NoFrac) \/ tk.junk]

\* the extraction a series uses: lambda values are float, the others int
Extract(sr, tk) == IF sr = "q" THEN ExtractFloat(tk) ELSE ExtractInt(tk)

\* the file system: path -> File(tokens), Missing for every other path
Lookup(fsys, path) == IF path \in DOMAIN fsys THEN fsys[path] ELSE Missing

\* ------------------------------------------------------------------- state
VARIABLES argv,             \* the argument vector, argv[1..argc-1]
          fs,               \* the file system: path -> File(tokens) or Missing
          pc,               \* position of main()
          optind, skipped,  \* state of getopt
          opt,              \* the value the last getopt call returned
          input_specified,  \* local flag of main
          params,           \* the global DDMparams record
          Verbose,          \* the global of debug.cpp
          err,              \* what has been written to stderr, in order
          exit_status,      \* exit status of the process, NoExit while running
          stream,           \* the four ifstreams q_file, t_file, s_file, e_file
          count,            \* lambda_count, tau_count, scale_count, episode_count
          arr,              \* lambda_arr, tau_arr, scale_arr, episode_arr
          idx,              \* write index of the filling pass
          oob,              \* a write outside an array has happened
          calls             \* the calls of runDDM made so far, in order

vars == <<argv, fs, pc, optind, skipped, opt, input_specified, params, Verbose, err,
          exit_status, stream, count, arr, idx, oob, calls>>

SeriesSet == {"q", "t", "s", "e"}

\* struct DDMparams with its default member initializers; q_tolerance is
\* kept in hundredths, explicit_fps in tenths
DDMparams ==
  [file_in |-> "", file_out |-> "", q_file_name |-> "", t_file_name |-> "",
   s_file_name |-> "", e_file_name |-> "",
   frame_count |-> 0, frame_offset |-> 0, x_off |-> 0, y_off |-> 0,
   chunk_length |-> 30, rolling_purge |-> 0,
   use_webcam |-> FALSE, webcam_idx |-> 0, use_movie_file |-> FALSE,
   use_index_fps |-> FALSE, use_explicit_fps |-> FALSE, explicit_fps |-> 10,
   multi_stream |-> TRUE, q_tolerance |-> 120, benchmark_mode |-> FALSE,
   use_episodes |-> FALSE, enable_angle_analysis |-> FALSE, angle_count |-> 8]

\* a default-constructed, not yet opened ifstream
ClosedStream == [is_open |-> FALSE, pos |-> 1, rest |-> FALSE, fail |-> FALSE,
                 closed |-> FALSE]

\* the file name member of params a series is read from
FileName(p, sr) ==
  CASE sr = "q" -> p.q_file_name [] sr = "t" -> p.t_file_name
    [] sr = "s" -> p.s_file_name [] sr = "e" -> p.e_file_name

\* conditionAssert that reports every violation as a warning and returns
conditionAssert_NoAbort(condition, text, abort, e) ==
  IF condition THEN [err |-> e, dead |-> FALSE]
  ELSE [err |-> Append(e, "[Warning] " \o text), dead |-> FALSE]

\* conditionAssert(condition, text, abort): the new stderr and whether the
\* process has exited
conditionAssert(condition, text, abort, e) ==
  IF condition THEN [err |-> e, dead |-> FALSE]
  ELSE IF abort THEN [err |-> Append(e, "[Error] " \o text), dead |-> TRUE]
  ELSE [err |-> Append(e, "[Warning] " \o text), dead |-> FALSE]

\* the cases of the switch that only store a parameter and continue
SetParam(p, ch, optarg) ==
  CASE ch = "o" -> [p EXCEPT !.file_out = optarg]
    [] ch = "N" -> [p EXCEPT !.frame_count = Atoi(optarg)]
    [] ch = "x" -> [p EXCEPT !.x_off = Atoi(optarg)]
    [] ch = "y" -> [p EXCEPT !.y_off = Atoi(optarg)]
    [] ch = "Q" -> [p EXCEPT !.q_file_name = optarg]
    [] ch = "T" -> [p EXCEPT !.t_file_name = optarg]
    [] ch = "S" -> [p EXCEPT !.s_file_name = optarg]
    [] ch = "E" -> [p EXCEPT !.e_file_name = optarg]
    [] ch = "I" -> [p EXCEPT !.use_index_fps = TRUE]
    [] ch = "s" -> [p EXCEPT !.frame_offset = Atoi(optarg)]
    [] ch = "t" -> [p EXCEPT !.q_tolerance = 100 + Atoi(optarg)]
    [] ch = "C" -> [p EXCEPT !.chunk_length = Atoi(optarg)]
    [] ch = "M" -> [p EXCEPT !.use_movie_file = TRUE]
    [] ch = "G" -> [p EXCEPT !.rolling_purge = Atoi(optarg)]
    [] ch = "F" -> [p EXCEPT !.use_explicit_fps = TRUE,
                             !.explicit_fps = 10 * Atoi(optarg)]
    [] ch = "A" -> [p EXCEPT !.enable_angle_analysis = TRUE]
    [] ch = "n" -> [p EXCEPT !.angle_count = Atoi(optarg)]
    [] OTHER -> p

\* case 'f': the assertion, then the input path
CaseF(p, optarg) == [p EXCEPT !.file_in = optarg]

\* case 'W': the assertion, then the webcam flag and the optional index
CaseW(p, optarg) ==
  IF optarg # NoArg
    THEN [p EXCEPT !.use_webcam = TRUE, !.webcam_idx = Atoi(optarg)]
    ELSE [p EXCEPT !.use_webcam = TRUE]

\* case 'B': the benchmark flag; the case has no assertion
CaseB(p) == [p EXCEPT !.benchmark_mode = TRUE]

\* the option characters the switch has a case label for
SwitchCases == {"?","h","o","N","x","y","Q","T","S","E","I","s","f","W","B",
                "v","t","C","M","G","F","A","n"}

MsgBoth == "Cannot use both in-filepath and web-cam option at same time."

\* One iteration of the for(;;) loop: a getopt call and the switch on it.
OptionLoop ==
  /\ pc = "getopt"
  /\ LET g  == Getopt(argv, optind, skipped)
         ch == g.ret
         asserts == ch \in {"f", "W"}
         ca == conditionAssert(~(asserts /\ input_specified), MsgBoth, TRUE, err)
     IN /\ optind' = g.ind
        /\ skipped' = g.skip
        /\ opt' = ch
        /\ IF ch \notin SwitchCases
             THEN \* no case label matches: the break after the switch
                  /\ pc' = "check_optind"
                  /\ UNCHANGED <<params, input_specified, Verbose, err, exit_status>>
           ELSE IF ch \in {"?", "h"}
             THEN \* printHelp(); return -1;
                  /\ err' = Append(err, "HELP")
                  /\ exit_status' = EXIT_HELP
                  /\ pc' = "exited"
                  /\ UNCHANGED <<params, input_specified, Verbose>>
           ELSE IF ca.dead
             THEN /\ err' = ca.err
                  /\ exit_status' = EXIT_FAILURE
                  /\ pc' = "exited"
                  /\ UNCHANGED <<params, input_specified, Verbose>>
           ELSE /\ params' = (CASE ch = "f" -> CaseF(params, g.optarg)
                                [] ch = "W" -> CaseW(params, g.optarg)
                                [] ch = "B" -> CaseB(params)
                                [] OTHER -> SetParam(params, ch, g.optarg))
                /\ input_specified' = (input_specified \/ ch \in {"f", "W", "B"})
                /\ Verbose' = (Verbose \/ ch = "v")
                /\ err' = ca.err
                /\ pc' = "getopt"
                /\ UNCHANGED exit_status
  /\ UNCHANGED <<argv, fs, stream, count, arr, idx, oob, calls>>

\* main() without the check for arguments left over
CheckOptind_NoCheck ==
  /\ pc = "check_optind"
  /\ pc' = "check_input"
  /\ UNCHANGED <<argv, fs, optind, skipped, opt, input_specified, params, Verbose,
                 err, exit_status, stream, count, arr, idx, oob, calls>>

\* if (optind != argc) { printHelp(); conditionAssert(false, ...); }
\* argc is Len(argv) + 1 and optind is kept 1-based over argv[1..]
CheckOptind ==
  /\ pc = "check_optind"
  /\ IF optind # Len(argv) + 1
       THEN LET ca == conditionAssert(FALSE, "An unexpected option was found.",
                                      TRUE, Append(err, "HELP"))
            IN /\ err' = ca.err
               /\ IF ca.dead
                    THEN exit_status' = EXIT_FAILURE /\ pc' = "exited"
                    ELSE exit_status' = exit_status /\ pc' = "check_input"
       ELSE /\ pc' = "check_input"
            /\ UNCHANGED <<err, exit_status>>
  /\ UNCHANGED <<argv, fs, optind, skipped, opt, input_specified, params, Verbose,
                 stream, count, arr, idx, oob, calls>>

\* conditionAssert(input_specified, "Must specify input.", true);
CheckInput ==
  /\ pc = "check_input"
  /\ LET ca == conditionAssert(input_specified, "Must specify input.", TRUE, err)
     IN /\ err' = ca.err
        /\ IF ca.dead
             THEN exit_status' = EXIT_FAILURE /\ pc' = "exited"
             ELSE exit_status' = exit_status /\ pc' = "open"
  /\ UNCHANGED <<argv, fs, optind, skipped, opt, input_specified, params, Verbose,
                 stream, count, arr, idx, oob, calls>>

\* ------------------------------------------------------------ the loader
Uninit == <<>>     \* an array element that has not been written

\* the position after series sr in the order q, t, s, e; last when sr is e
After(sr, prefix, last) ==
  CASE sr = "q" -> prefix \o "t" [] sr = "t" -> prefix \o "s"
    [] sr = "s" -> prefix \o "e" [] sr = "e" -> last

\* the series a position of the form <prefix>q / t / s / e works on
SeriesAt(prefix) ==
  CASE pc = prefix \o "q" -> "q" [] pc = prefix \o "t" -> "t"
    [] pc = prefix \o "s" -> "s" [] pc = prefix \o "e" -> "e"

AtSeries(prefix) == pc \in {prefix \o sr : sr \in SeriesSet}

\* a stream that reports is_open() whether or not the file exists
OpenStream_AlwaysOpen(fsys, name) == [ClosedStream EXCEPT !.is_open = TRUE]

\* std::ifstream x_file(name): open for reading, positioned at the start
OpenStream(fsys, name) ==
  [ClosedStream EXCEPT !.is_open = Lookup(fsys, name).exists]

\* one formatted extraction  file >> tmp  of series sr from stream st over
\* the token sequence cont: success, the value, and the stream afterwards
StreamExtract(sr, st, cont) ==
  IF (~st.is_open) \/ st.fail \/ st.rest \/ st.pos > Len(cont)
    THEN [ok |-> FALSE, val |-> Uninit, st |-> [st EXCEPT !.fail = TRUE]]
  ELSE LET x == Extract(sr, cont[st.pos])
       IN IF x.ok
            THEN [ok |-> TRUE, val |-> x.val,
                  st |-> [st EXCEPT !.pos = IF x.rest THEN @ ELSE @ + 1,
                                    !.rest = x.rest]]
            ELSE [ok |-> FALSE, val |-> Uninit, st |-> [st EXCEPT !.fail = TRUE]]

\* the tokens behind the stream of series sr
Content(sr) == Lookup(fs, FileName(params, sr)).toks

\* the four ifstream constructors
OpenFiles ==
  /\ pc = "open"
  /\ stream' = [sr \in SeriesSet |-> OpenStream(fs, FileName(params, sr))]
  /\ pc' = "assert_q"
  /\ UNCHANGED <<argv, fs, optind, skipped, opt, input_specified, params, Verbose,
                 err, exit_status, count, arr, idx, oob, calls>>

OpenMsg(sr) ==
  CASE sr = "q" -> "cannot open lambda-file." [] sr = "t" -> "cannot open tau-file"
    [] sr = "s" -> "cannot open scales-file." [] sr = "e" -> "cannot open episode-file."

\* conditionAssert(x_file.is_open(), "cannot open ...", true), one per file
AssertOpen ==
  /\ AtSeries("assert_")
  /\ LET sr == SeriesAt("assert_")
         ca == conditionAssert(stream[sr].is_open, OpenMsg(sr), TRUE, err)
     IN /\ err' = ca.err
        /\ IF ca.dead
             THEN exit_status' = EXIT_FAILURE /\ pc' = "exited"
             ELSE exit_status' = exit_status /\ pc' = After(sr, "assert_", "count_q")
  /\ UNCHANGED <<argv, fs, optind, skipped, opt, input_specified, params, Verbose,
                 stream, count, arr, idx, oob, calls>>

\* one evaluation of the condition of a counting loop, and its body
CountStep ==
  /\ AtSeries("count_")
  /\ LET sr == SeriesAt("count_")
         x  == StreamExtract(sr, stream[sr], Content(sr))
     IN /\ stream' = [stream EXCEPT ![sr] = x.st]
        /\ IF x.ok
             THEN count' = [count EXCEPT ![sr] = @ + 1] /\ pc' = pc
             ELSE count' = count /\ pc' = After(sr, "count_", "rewind")
  /\ UNCHANGED <<argv, fs, optind, skipped, opt, input_specified, params, Verbose,
                 err, exit_status, arr, idx, oob, calls>>

\* clear() without the seekg(0)
Seek0_NoSeek(st) == [st EXCEPT !.fail = FALSE]

\* clear() and seekg(0) on a stream
Seek0(st) == [st EXCEPT !.fail = FALSE, !.pos = 1, !.rest = FALSE]

\* the array declared with n elements
NewArray(n) == [k \in 1..n |-> Uninit]

\* clear() and seekg(0) on the four streams, then the four array declarations
Rewind ==
  /\ pc = "rewind"
  /\ stream' = [sr \in SeriesSet |-> Seek0(stream[sr])]
  /\ arr' = [sr \in SeriesSet |-> NewArray(count[sr])]
  /\ pc' = "idx_q"
  /\ UNCHANGED <<argv, fs, optind, skipped, opt, input_specified, params, Verbose,
                 err, exit_status, count, idx, oob, calls>>

\* idx = 0; before each filling loop
ResetIdx ==
  /\ AtSeries("idx_")
  /\ idx' = 0
  /\ pc' = "fill_" \o SeriesAt("idx_")
  /\ UNCHANGED <<argv, fs, optind, skipped, opt, input_specified, params, Verbose,
                 err, exit_status, stream, count, arr, oob, calls>>

\* x_arr[++idx] = tmp: the index is advanced before the write
Store_PreIncrement(a, i, v) ==
  IF i + 1 < Len(a) THEN [a EXCEPT ![i + 2] = v] ELSE a

\* x_arr[idx] = tmp for the 0-based index i: a write at or past the declared
\* length lands outside the array and leaves the array as it is
Store(a, i, v) == IF i < Len(a) THEN [a EXCEPT ![i + 1] = v] ELSE a

\* one evaluation of the condition of a filling loop, and its body
FillStep ==
  /\ AtSeries("fill_")
  /\ LET sr == SeriesAt("fill_")
         x  == StreamExtract(sr, stream[sr], Content(sr))
     IN /\ stream' = [stream EXCEPT ![sr] = x.st]
        /\ IF x.ok
             THEN /\ arr' = [arr EXCEPT ![sr] = Store(@, idx, x.val)]
                  /\ oob' = (oob \/ idx >= Len(arr[sr]))
                  /\ idx' = idx + 1
                  /\ pc' = pc
             ELSE /\ pc' = After(sr, "idx_", "run")
                  /\ UNCHANGED <<arr, oob, idx>>
  /\ UNCHANGED <<argv, fs, optind, skipped, opt, input_specified, params, Verbose,
                 err, exit_status, count, calls>>

\* the arguments of the runDDM call
EngineArgs ==
  [file_in |-> params.file_in, file_out |-> params.file_out,
   tau_arr |-> arr["t"], tau_count |-> count["t"],
   lambda_arr |-> arr["q"], lambda_count |-> count["q"],
   scale_arr |-> arr["s"], scale_count |-> count["s"],
   x_off |-> params.x_off, y_off |-> params.y_off,
   episode_arr |-> arr["e"], episode_count |-> count["e"],
   frame_count |-> params.frame_count, frame_offset |-> params.frame_offset,
   chunk_length |-> params.chunk_length, multi_stream |-> params.multi_stream,
   use_webcam |-> params.use_webcam, webcam_idx |-> params.webcam_idx,
   q_tolerance |-> params.q_tolerance, use_movie_file |-> params.use_movie_file,
   use_index_fps |-> params.use_index_fps,
   use_explicit_fps |-> params.use_explicit_fps,
   explicit_fps |-> params.explicit_fps, rolling_purge |-> params.rolling_purge,
   benchmark_mode |-> params.benchmark_mode,
   enable_angle_analysis |-> params.enable_angle_analysis,
   angle_count |-> params.angle_count]

\* runDDM(...): the synchronous call of the engine, up to its return
RunDDM ==
  /\ pc = "run"
  /\ calls' = Append(calls, EngineArgs)
  /\ pc' = "end"
  /\ UNCHANGED <<argv, fs, optind, skipped, opt, input_specified, params, Verbose,
                 err, exit_status, stream, count, arr, idx, oob>>

\* close() on a stream
Close(st) == [st EXCEPT !.is_open = FALSE, !.closed = TRUE]

\* main() without e_file.close()
ClosedAtEnd_ForgetsOne == SeriesSet \ {"e"}

\* the files main() closes after the engine call
ClosedAtEnd == SeriesSet

\* printf("DDM End\n"); and the four close() calls
CloseFiles ==
  /\ pc = "end"
  /\ stream' = [sr \in SeriesSet |->
                  IF sr \in ClosedAtEnd THEN Close(stream[sr]) ELSE stream[sr]]
  /\ pc' = "return"
  /\ UNCHANGED <<argv, fs, optind, skipped, opt, input_specified, params, Verbose,
                 err, exit_status, count, arr, idx, oob, calls>>

\* return 0;
Return ==
  /\ pc = "return"
  /\ exit_status' = EXIT_SUCCESS
  /\ pc' = "exited"
  /\ UNCHANGED <<argv, fs, optind, skipped, opt, input_specified, params, Verbose,
                 err, stream, count, arr, idx, oob, calls>>

\* ------------------------------------------------------------------ inputs
SeqsUpTo(S, n) == UNION {[1..k -> S] : k \in 0..n}

\* the elements the free part of an argument vector is built from:
\* -fin  -f  -W  -W1  -B  -Z  -I  -h  -X  and the word 1
ArgAlphabet ==
  {OptA("f", "in"), Opt("f"), Opt("W"), OptA("W", "1"), Opt("B"), Opt("Z"),
   Opt("I"), Opt("h"), Opt("X"), Word("1")}

\* -Q<q> -T<t> -S<s> -E<e>
SeriesArgs(q, t, s, e) == <<OptA("Q", q), OptA("T", t), OptA("S", s), OptA("E", e)>>

\* argument vectors: every free part around the four series options
ArgvVaried ==
  {h \o SeriesArgs("a", "a", "b", "b") : h \in SeqsUpTo(ArgAlphabet, MaxArgs)}
  \cup {SeriesArgs("a", "a", "b", "b") \o h : h \in SeqsUpTo(ArgAlphabet, MaxArgs)}

FsFixed == [a |-> File(<<T1, T2>>), b |-> File(<<T2>>)]

\* argument vectors that send each series, and all of them, to file a
ArgvFiles ==
  {<<OptA("f", "in")>> \o SeriesArgs("a", "b", "b", "b"),
   <<OptA("f", "in")>> \o SeriesArgs("b", "a", "b", "b"),
   <<OptA("f", "in")>> \o SeriesArgs("b", "b", "a", "b"),
   <<OptA("f", "in")>> \o SeriesArgs("b", "b", "b", "a"),
   <<OptA("f", "in")>> \o SeriesArgs("a", "a", "a", "a"),
   <<OptA("f", "in"), OptA("Q", "b"), OptA("T", "a"), OptA("S", "a")>>}

\* file systems: every content of file a, a few of file b
FsVaried ==
  {[a |-> ca, b |-> cb] :
     ca \in {File(c) : c \in SeqsUpTo(Tokens, MaxTokens)} \cup {Missing},
     cb \in {Missing, File(<<>>), File(<<T2, T1>>)}}

Init ==
  /\ \/ argv \in ArgvVaried /\ fs = FsFixed
     \/ argv \in ArgvFiles /\ fs \in FsVaried
  /\ pc = "getopt"
  /\ optind = 1
  /\ skipped = 0
  /\ opt = "none"
  /\ input_specified = FALSE
  /\ params = DDMparams
  /\ Verbose = FALSE
  /\ err = <<>>
  /\ exit_status = NoExit
  /\ stream = [sr \in SeriesSet |-> ClosedStream]
  /\ count = [sr \in SeriesSet |-> 0]
  /\ arr = [sr \in SeriesSet |-> <<>>]
  /\ idx = 0
  /\ oob = FALSE
  /\ calls = <<>>

Next ==
  \/ OptionLoop
  \/ CheckOptind
  \/ CheckInput
  \/ OpenFiles
  \/ AssertOpen
  \/ CountStep
  \/ Rewind
  \/ ResetIdx
  \/ FillStep
  \/ RunDDM
  \/ CloseFiles
  \/ Return

Spec == Init /\ [][Next]_vars

\* ============================================================== properties
\* the option characters a complete getopt scan of the vector returns
RECURSIVE ScanAll(_, _, _)
ScanAll(av, ind, skip) ==
  LET g == Getopt(av, ind, skip)
  IN IF g.ret = "EOF" THEN {} ELSE {g.ret} \cup ScanAll(av, g.ind, g.skip)

ParsedOptions == ScanAll(argv, 1, 0)

\* the number of positional words a complete getopt scan passes over
RECURSIVE ScanSkip(_, _, _)
ScanSkip(av, ind, skip) ==
  LET g == Getopt(av, ind, skip)
  IN IF g.ret = "EOF" THEN g.skip ELSE ScanSkip(av, g.ind, g.skip)

HasWord == ScanSkip(argv, 1, 0) > 0

EngineInvoked == Len(calls) >= 1
Untouched(st) == ~st.is_open /\ ~st.closed /\ ~st.fail /\ st.pos = 1 /\ ~st.rest
NoFileTouched == \A sr \in SeriesSet : Untouched(stream[sr])
Error(text) == "[Error] " \o text
ErrTrailing == Error("An unexpected option was found.")
ErrNoInput == Error("Must specify input.")

\* the option loop was left by the break after the switch
LoopLeft == pc # "getopt" /\ opt \notin SwitchCases

\* the positions of the loader and of everything after it
LoaderPositions ==
  {p \o sr : p \in {"count_", "idx_", "fill_"}, sr \in SeriesSet}
  \cup {"rewind", "run", "end", "return"}

\* ---------------------------------------------------------------------- C1
\* C1: whenever more than one of the input-source options -f, -W, -B occurs
\* in the argument vector, no series file is ever opened or read and the
\* engine is never invoked.
C1_MultipleSourcesRejected ==
  Cardinality(ParsedOptions \cap {"f", "W", "B"}) >= 2
    => NoFileTouched /\ ~EngineInvoked

\* ---------------------------------------------------------------------- C2
\* C2: the multi-stream flag handed to the engine is false exactly when -Z
\* occurs in the argument vector.
C2_ZDisablesMultiStream ==
  \A k \in 1..Len(calls) : calls[k].multi_stream = ("Z" \notin ParsedOptions)

\* ---------------------------------------------------------------------- C3
\* C3: the engine is invoked at most once, only after the option loop was
\* left without help or fatal error, the trailing-argument and input-source
\* checks passed and the four files were opened and read to their end in
\* both passes; a run that ends in help or a fatal error has not invoked
\* it, and status 0 is returned only after the engine call.
C3_EngineOnceAfterAllInputs ==
  /\ Len(calls) <= 1
  /\ EngineInvoked =>
       /\ LoopLeft
       /\ err = <<>>
       /\ optind = Len(argv) + 1
       /\ input_specified
       /\ pc \in {"end", "return", "exited"}
       /\ \A sr \in SeriesSet :
            /\ stream[sr].is_open \/ stream[sr].closed
            /\ stream[sr].fail
            /\ Len(arr[sr]) = count[sr]
            /\ \A k \in 1..count[sr] : arr[sr][k] # Uninit
  /\ exit_status \in {EXIT_FAILURE, EXIT_HELP} => ~EngineInvoked
  /\ exit_status = EXIT_SUCCESS => EngineInvoked /\ pc = "exited"
  /\ pc = "exited" => exit_status # NoExit

C3_Witness == EngineInvoked /\ exit_status = EXIT_SUCCESS /\ count["q"] >= 2

\* ---------------------------------------------------------------------- C4
\* C4: a run whose argument vector has none of -f, -W, -B, no -h, no
\* unrecognized option and no positional argument ends in the fatal error
\* 'Must specify input.' with a failure status, with no file opened and no
\* engine call.
C4_NoSourceMustSpecifyInput ==
  (ParsedOptions \cap {"f", "W", "B", "h", "?"} = {} /\ ~HasWord /\ pc = "exited")
    => /\ err = <<ErrNoInput>>
       /\ exit_status = EXIT_FAILURE
       /\ NoFileTouched /\ ~EngineInvoked

\* ---------------------------------------------------------------------- C5
\* C5: while one of the four series paths cannot be opened the engine is not
\* invoked, no status 0 is returned and no counting or filling pass runs;
\* the loader runs only with all four files open, and a failed open check
\* ends the run with a failure status, naming the first file in the order
\* q, t, s, e that cannot be opened.
Unopenable(sr) == ~Lookup(fs, FileName(params, sr)).exists
Before(sr) ==
  CASE sr = "q" -> {} [] sr = "t" -> {"q"} [] sr = "s" -> {"q", "t"}
    [] sr = "e" -> {"q", "t", "s"}

C5_UnopenableFileIsFatal ==
  /\ (\E sr \in SeriesSet : Unopenable(sr)) =>
       /\ ~EngineInvoked
       /\ exit_status # EXIT_SUCCESS
       /\ pc \notin LoaderPositions
       /\ \A sr \in SeriesSet : stream[sr].pos = 1 /\ ~stream[sr].fail /\ count[sr] = 0
       /\ pc = "exited" => exit_status \in {EXIT_FAILURE, EXIT_HELP}
  /\ pc \in LoaderPositions \ {"return"} => \A sr \in SeriesSet : stream[sr].is_open
  /\ \A sr \in SeriesSet :
       (err # <<>> /\ err[Len(err)] = Error(OpenMsg(sr))) =>
          /\ pc = "exited" /\ exit_status = EXIT_FAILURE
          /\ Unopenable(sr)
          /\ \A o \in Before(sr) : stream[o].is_open

C5_Witness ==
  /\ pc = "exited"
  /\ err = <<Error(OpenMsg("s"))>>
  /\ stream["q"].is_open /\ stream["t"].is_open /\ stream["e"].is_open

\* ---------------------------------------------------------------------- C6
\* C6: for every series whose file is well-formed (every token is a whole
\* literal of the series' element type) the engine receives the number of
\* tokens as the count and the tokens' values in file order, each series
\* independently of the others; two series of the same element type read
\* from the same file receive identical sequences.
TokenValue(sr, tk) ==
  IF sr = "q" THEN <<tk.i, IF tk.f = NoFrac THEN 0 ELSE tk.f>> ELSE <<tk.i>>
WholeLiteral(sr, tk) == tk.i >= 0 /\ ~tk.junk /\ (sr # "q" => tk.f = NoFrac)
WellFormed(sr) ==
  \A k \in 1..Len(Content(sr)) : WholeLiteral(sr, Content(sr)[k])
CallArr(c, sr) ==
  CASE sr = "q" -> c.lambda_arr [] sr = "t" -> c.tau_arr
    [] sr = "s" -> c.scale_arr [] sr = "e" -> c.episode_arr
CallCount(c, sr) ==
  CASE sr = "q" -> c.lambda_count [] sr = "t" -> c.tau_count
    [] sr = "s" -> c.scale_count [] sr = "e" -> c.episode_count

C6_WellFormedFileLoadedWhole ==
  \A n \in 1..Len(calls) :
    /\ \A sr \in SeriesSet :
         WellFormed(sr) =>
           /\ CallCount(calls[n], sr) = Len(Content(sr))
           /\ CallArr(calls[n], sr) =
                [k \in 1..Len(Content(sr)) |-> TokenValue(sr, Content(sr)[k])]
    /\ \A s1, s2 \in {"t", "s", "e"} :
         FileName(params, s1) = FileName(params, s2) =>
           /\ CallArr(calls[n], s1) = CallArr(calls[n], s2)
           /\ CallCount(calls[n], s1) = CallCount(calls[n], s2)

C6_Witness ==
  /\ EngineInvoked
  /\ \A sr \in SeriesSet : WellFormed(sr)
  /\ calls[1].lambda_count >= 2
  /\ calls[1].lambda_arr[2] = <<1, 5>>
  /\ calls[1].tau_count = 0

C8_NoOpenFileAtExit ==
  (pc = "exited" \/ EngineInvoked) => \A sr \in SeriesSet : ~stream[sr].is_open

\* C8 amended: a run that returns 0 has explicitly closed all four series
\* files; they are still open when the engine call returns and are closed by
\* the close calls after it; a run that ends in a fatal error or in help
\* has closed no file explicitly, so the files it opened are open at exit.
C8_ClosedOnNormalReturnOnly ==
  /\ exit_status = EXIT_SUCCESS =>
       \A sr \in SeriesSet : stream[sr].closed /\ ~stream[sr].is_open
  /\ pc = "end" => \A sr \in SeriesSet : stream[sr].is_open
  /\ exit_status \in {EXIT_FAILURE, EXIT_HELP} =>
       \A sr \in SeriesSet : ~stream[sr].closed

C8_Witness ==
  /\ exit_status = EXIT_SUCCESS
  /\ \A sr \in SeriesSet : stream[sr].closed

\* ---------------------------------------------------------------------- C9
\* C9: a run with -W followed by the integer token 1, and otherwise only
\* the four series options and -I, is not rejected and hands the engine the
\* webcam flag and the index 1.
WThenIndex ==
  \E k \in 1..(Len(argv) - 1) :
    /\ argv[k] = Opt("W") /\ argv[k + 1] = Word("1")
    /\ \A j \in (1..Len(argv)) \ {k, k + 1} : argv[j].c \in {"Q", "T", "S", "E", "I"}

C9_IndexFromFollowingToken ==
  (WThenIndex /\ pc = "exited")
    => /\ exit_status = EXIT_SUCCESS
       /\ Len(calls) = 1
       /\ calls[1].use_webcam
       /\ calls[1].webcam_idx = Atoi("1")

\* --------------------------------------------------------------------- C10
\* the values of the maximal leading run of tokens that are whole literals
RECURSIVE LeadingRun(_, _)
LeadingRun(sr, c) ==
  IF c = <<>> \/ ~WholeLiteral(sr, Head(c)) THEN <<>>
  ELSE <<TokenValue(sr, Head(c))>> \o LeadingRun(sr, Tail(c))

\* the leading run, then the leading number of the token that ends it
RECURSIVE LeadingRunAndPrefix(_, _)
LeadingRunAndPrefix(sr, c) ==
  IF c = <<>> THEN <<>>
  ELSE IF WholeLiteral(sr, Head(c))
    THEN <<TokenValue(sr, Head(c))>> \o LeadingRunAndPrefix(sr, Tail(c))
  ELSE IF Head(c).i >= 0 THEN <<TokenValue(sr, Head(c))>>
  ELSE <<>>

\* C10 as stated: the series handed to the engine is exactly the maximal
\* leading run of numeric tokens of its file.
C10_LoadedIsLeadingRun ==
  \A n \in 1..Len(calls) : \A sr \in SeriesSet :
    CallArr(calls[n], sr) = LeadingRun(sr, Content(sr))

\* the series whose filling pass has just ended at position p
JustFilled(p) ==
  CASE p = "idx_t" -> "q" [] p = "idx_s" -> "t" [] p = "idx_e" -> "s"
    [] p = "run" -> "e"

\* C10 amended: both passes stop at the first extraction that fails, so the
\* loaded series is the maximal leading run of tokens that parse whole,
\* followed by the leading number of the token that ends the run when it
\* starts with one; no error is raised, no write lands outside the array,
\* the write index stays within the counted length during the filling pass
\* and equals it when the pass ends.
C10_LoadedIsLeadingRunAndPrefix ==
  /\ ~oob
  /\ AtSeries("fill_") =>
       idx <= count[SeriesAt("fill_")] /\ Len(arr[SeriesAt("fill_")]) = count[SeriesAt("fill_")]
  /\ pc \in {"idx_t", "idx_s", "idx_e", "run"} =>
       /\ idx = count[JustFilled(pc)]
       /\ arr[JustFilled(pc)] = LeadingRunAndPrefix(JustFilled(pc), Content(JustFilled(pc)))
  /\ pc \in LoaderPositions => err = <<>> /\ exit_status = NoExit
  /\ \A n \in 1..Len(calls) : \A sr \in SeriesSet :
       /\ CallArr(calls[n], sr) = LeadingRunAndPrefix(sr, Content(sr))
       /\ CallCount(calls[n], sr) = Len(CallArr(calls[n], sr))

C10_Witness ==
  /\ EngineInvoked
  /\ \E sr \in {"q", "t"} :
       /\ CallCount(calls[1], sr) >= 2
       /\ Len(Content(sr)) > CallCount(calls[1], sr)
       /\ CallArr(calls[1], sr) # LeadingRun(sr, Content(sr))

====
